---- MODULE Spec2Model ----
(***************************************************************************)
(* Model of the Google Drive upload action (src/main.go).                  *)
(*                                                                         *)
(* Strings are sequences of one-character strings, so that path handling   *)
(* (filepath.Dir, filepath.Base, strings.Split) and the prefix             *)
(* concatenation are computed and not assumed.  The remote store is a      *)
(* function from object identifiers to metadata records; every remote call *)
(* may fail, and a search returns its matches in any order.                *)
(***************************************************************************)
EXTENDS Naturals, Sequences, FiniteSets, TLC

VARIABLES
    files,              \* result of filepath.Glob: the matched paths
    name,               \* input "name"
    filenamePrefix,     \* input "namePrefix"
    overwriteFlag,      \* parsed overwrite flag
    useCompleteSourceFilenameAsNameFlag,
    mirrorDirectoryStructureFlag,
    store,              \* remote store: id -> [name, mimeType, parents]
    idx,                \* position of the range loop over files (1-based)
    seg,                \* position of the inner loop over directoryStructure
    folderId,           \* main's working folderId
    pc,                 \* "loop" | "mirror" | "upload" | "done" | "fatal"
    calls,              \* remote calls issued so far, in order
    resolves,           \* createDriveDirectory invocations, in order
    uploads,            \* uploadFile invocations, in order
    openHandles         \* local files opened by os.Open and not closed

vars == <<files, name, filenamePrefix, overwriteFlag,
          useCompleteSourceFilenameAsNameFlag, mirrorDirectoryStructureFlag,
          store, idx, seg, folderId, pc, calls, resolves, uploads, openHandles>>

config == <<files, name, filenamePrefix, overwriteFlag,
            useCompleteSourceFilenameAsNameFlag, mirrorDirectoryStructureFlag>>

(***************************************************************************)
(* Bounds of the model.                                                    *)
(***************************************************************************)
MaxFiles == 3       \* at most this many paths matched by the pattern
MaxRemote == 2      \* at most this many objects already in the remote store

(***************************************************************************)
(* Strings and paths.                                                      *)
(***************************************************************************)
Separator == "/"

EmptyString == <<>>

Last(s) == s[Len(s)]

RECURSIVE SplitAcc(_, _, _)
SplitAcc(s, cur, acc) ==
    IF s = <<>> THEN Append(acc, cur)
    ELSE IF Head(s) = Separator
         THEN SplitAcc(Tail(s), <<>>, Append(acc, cur))
         ELSE SplitAcc(Tail(s), Append(cur, Head(s)), acc)

\* strings.Split(s, string(os.PathSeparator))
Split(s) == SplitAcc(s, <<>>, <<>>)

RECURSIVE Join(_)
Join(elems) ==
    IF elems = <<>> THEN <<>>
    ELSE IF Len(elems) = 1 THEN Head(elems)
    ELSE Head(elems) \o <<Separator>> \o Join(Tail(elems))

RECURSIVE CleanElems(_, _, _)
CleanElems(in, rooted, out) ==
    IF in = <<>> THEN out
    ELSE LET e == Head(in) IN
         IF e = <<>> \/ e = <<".">> THEN CleanElems(Tail(in), rooted, out)
         ELSE IF e = <<".", ".">>
              THEN IF out # <<>> /\ Last(out) # <<".", ".">>
                   THEN CleanElems(Tail(in), rooted, SubSeq(out, 1, Len(out) - 1))
                   ELSE IF rooted THEN CleanElems(Tail(in), rooted, out)
                        ELSE CleanElems(Tail(in), rooted, Append(out, e))
              ELSE CleanElems(Tail(in), rooted, Append(out, e))

\* filepath.Clean on a slash-separated path
Clean(path) ==
    IF path = <<>> THEN <<".">>
    ELSE LET rooted == Head(path) = Separator
             body == Join(CleanElems(Split(path), rooted, <<>>))
         IN  IF rooted THEN <<Separator>> \o body
             ELSE IF body = <<>> THEN <<".">> ELSE body

\* index of the last separator of path, 0 when there is none
RECURSIVE LastSeparator(_, _)
LastSeparator(path, i) ==
    IF i = 0 THEN 0
    ELSE IF path[i] = Separator THEN i ELSE LastSeparator(path, i - 1)

\* filepath.Dir
Dir(path) == Clean(SubSeq(path, 1, LastSeparator(path, Len(path))))

RECURSIVE TrimTrailingSeparators(_)
TrimTrailingSeparators(path) ==
    IF path # <<>> /\ Last(path) = Separator
    THEN TrimTrailingSeparators(SubSeq(path, 1, Len(path) - 1))
    ELSE path

\* filepath.Base
Base(path) ==
    IF path = <<>> THEN <<".">>
    ELSE LET p == TrimTrailingSeparators(path)
             i == LastSeparator(p, Len(p))
             b == SubSeq(p, i + 1, Len(p))
         IN  IF b = <<>> THEN <<Separator>> ELSE b

\* main: directoryStructure := strings.Split(filepath.Dir(file), sep)
DirectoryStructure(file) == Split(Dir(file))

(***************************************************************************)
(* The local file system and the matched file lists.  A pattern matches    *)
(* entries of one directory level, and Glob returns them sorted.           *)
(***************************************************************************)
Level1 == << <<"a">>, <<"f">> >>
Level2 == << <<"a", "/", "b">>, <<"a", "/", "f">>, <<"a", "/", "g">>,
             <<"c", "/", "f">> >>
Level3 == << <<"a", "/", "b", "/", "f">>, <<"a", "/", "c", "/", "f">> >>
Levels == {Level1, Level2, Level3}

\* the matched paths that are directories (os.Lstat(...).IsDir())
LocalDirs == { <<"a">>, <<"a", "/", "b">> }

Increasing(s) == \A i, j \in DOMAIN s : i < j => s[i] < s[j]

\* the sorted sublists of one level, of 1..MaxFiles paths
Matches(level) ==
    { [i \in DOMAIN pick |-> level[pick[i]]] :
        pick \in { p \in UNION { [1..n -> DOMAIN level] : n \in 1..MaxFiles } :
                     Increasing(p) } }

FileLists == UNION { Matches(level) : level \in Levels }

\* what os.Lstat and os.Open can report for a matched path
LocalOutcomes(filename) ==
    IF filename \in LocalDirs THEN {"dir", "gone"}
    ELSE {"file", "unreadable", "gone"}

Names == { EmptyString, <<"n">> }
Prefixes == { EmptyString, <<"p">> }
mimeType == "text/plain"

(***************************************************************************)
(* The remote store.                                                       *)
(***************************************************************************)
FolderMimeType == "application/vnd.google-apps.folder"
Nil == 0                \* no drive.File / no identifier
originalFolderId == 1   \* input "folderId": the configured root folder
ElsewhereId == originalFolderId + 1   \* some other folder of the drive

BaseObjects ==
    (originalFolderId :> [name |-> <<"R">>, mimeType |-> FolderMimeType, parents |-> {}])
    @@ (ElsewhereId :> [name |-> <<"E">>, mimeType |-> FolderMimeType, parents |-> {}])

\* objects that may exist before the run
RemotePool ==
    (3 :> [name |-> <<"f">>, mimeType |-> "application/octet-stream", parents |-> {originalFolderId}])
    @@ (4 :> [name |-> <<"f">>, mimeType |-> "application/octet-stream", parents |-> {ElsewhereId}])
    @@ (5 :> [name |-> <<"f">>, mimeType |-> "application/octet-stream", parents |-> {originalFolderId}])
    @@ (6 :> [name |-> <<"a">>, mimeType |-> FolderMimeType, parents |-> {originalFolderId}])
    @@ (7 :> [name |-> <<"a">>, mimeType |-> FolderMimeType, parents |-> {originalFolderId}])
    @@ (8 :> [name |-> <<"a">>, mimeType |-> FolderMimeType, parents |-> {ElsewhereId}])
    @@ (9 :> [name |-> <<"f">>, mimeType |-> "application/octet-stream", parents |-> {6}])

InitialStores ==
    { [id \in DOMAIN BaseObjects \cup chosen |->
          IF id \in DOMAIN BaseObjects THEN BaseObjects[id] ELSE RemotePool[id]] :
        chosen \in { c \in SUBSET DOMAIN RemotePool : Cardinality(c) <= MaxRemote } }

\* a drive.File as returned with Fields("files(name,id,mimeType,parents)")
DriveFile(id) ==
    [id |-> id, name |-> store[id].name, mimeType |-> store[id].mimeType,
     parents |-> store[id].parents]

Max(S) == CHOOSE m \in S : \A x \in S : x <= m

Min(S) == CHOOSE m \in S : \A x \in S : m <= x

\* the identifier the store gives the next created object
NewId == Max(DOMAIN store \cup DOMAIN RemotePool) + 1

Orders(S) ==
    { o \in [1..Cardinality(S) -> S] : \A i, j \in DOMAIN o : i # j => o[i] # o[j] }

\* the possible answers r.Files of a successful Files.List with query q
ListResults(matching) ==
    { [i \in DOMAIN o |-> DriveFile(o[i])] : o \in Orders(matching) }

\* Q("name='" + name + "' and mimeType='application/vnd.google-apps.folder'")
FolderQuery(n) ==
    { id \in DOMAIN store : store[id].name = n /\ store[id].mimeType = FolderMimeType }

\* Q("name='" + name + "'")
NameQuery(n) == { id \in DOMAIN store : store[id].name = n }

Call(op, folder, q, parent, id, result, ok) ==
    [file |-> idx, seg |-> IF pc = "mirror" THEN seg ELSE 0, op |-> op,
     folder |-> folder, q |-> q, parent |-> parent, id |-> id,
     files |-> result, ok |-> ok]

(***************************************************************************)
(* createDriveDirectory: find or create the folder `n` under `fid`.        *)
(***************************************************************************)
\* positions of the returned folders that have fid among their parents
ParentMatches(rfiles, fid) == { i \in DOMAIN rfiles : fid \in rfiles[i].parents }

\* a scan that counts every returned folder, whatever its parents
FoundFoldersByName(rfiles, fid) == Len(rfiles)

\* foundFolders after the scan of r.Files
FoundFolders(rfiles, fid) == Cardinality(ParentMatches(rfiles, fid))

\* a scan that keeps the first match
FirstFolderId(rfiles, fid) ==
    IF ParentMatches(rfiles, fid) = {} THEN Nil
    ELSE rfiles[Min(ParentMatches(rfiles, fid))].id

\* nextFolderId after the scan of r.Files: every match overwrites it
NextFolderId(rfiles, fid) ==
    IF ParentMatches(rfiles, fid) = {} THEN Nil
    ELSE rfiles[Max(ParentMatches(rfiles, fid))].id

createDriveDirectory(fid, n, listOk, r, createOk) ==
    LET list == Call("list", TRUE, n, Nil, Nil, IF listOk THEN r ELSE <<>>, listOk) IN
    IF ~listOk
    THEN [id |-> Nil, err |-> "unable to retrieve files",
          calls |-> <<list>>, store |-> store]
    ELSE IF FoundFolders(r, fid) = 0
    THEN IF ~createOk
         THEN [id |-> Nil, err |-> "creating folder failed",
               calls |-> <<list, Call("create", TRUE, n, fid, Nil, <<>>, FALSE)>>,
               store |-> store]
         ELSE [id |-> NewId, err |-> "",
               calls |-> <<list, Call("create", TRUE, n, fid, NewId, <<>>, TRUE)>>,
               store |-> store @@ (NewId :> [name |-> n, mimeType |-> FolderMimeType,
                                             parents |-> {fid}])]
    ELSE [id |-> NextFolderId(r, fid), err |-> "",
          calls |-> <<list>>, store |-> store]

(***************************************************************************)
(* uploadToDrive: the transfer primitive.                                  *)
(***************************************************************************)
\* a transfer that does not test for a directory
NeverDir(outcome) == FALSE

\* fi.IsDir()
IsDir(outcome) == outcome = "dir"

uploadToDrive(filename, fid, driveFile, n, outcome, ok) ==
    IF outcome = "gone"
    THEN [err |-> "unable to stat file", calls |-> <<>>, store |-> store,
          opened |-> {}, outcome |-> outcome, driveFile |-> driveFile]
    ELSE IF IsDir(outcome)
    THEN [err |-> "", calls |-> <<>>, store |-> store,
          opened |-> {}, outcome |-> outcome, driveFile |-> driveFile]
    ELSE IF outcome = "unreadable"
    THEN [err |-> "opening file failed", calls |-> <<>>, store |-> store,
          opened |-> {}, outcome |-> outcome, driveFile |-> driveFile]
    ELSE IF driveFile # Nil
    THEN [err |-> IF ok THEN "" ELSE "uploading file failed",
          calls |-> <<Call("update", FALSE, n, fid, driveFile, <<>>, ok)>>,
          store |-> IF ok
                    THEN [store EXCEPT ![driveFile] =
                            [name |-> n, mimeType |-> mimeType,
                             parents |-> @.parents \cup {fid}]]
                    ELSE store,
          opened |-> {filename}, outcome |-> outcome, driveFile |-> driveFile]
    ELSE [err |-> IF ok THEN "" ELSE "uploading file failed",
          calls |-> <<Call("create", FALSE, n, fid, IF ok THEN NewId ELSE Nil, <<>>, ok)>>,
          store |-> IF ok
                    THEN store @@ (NewId :> [name |-> n, mimeType |-> mimeType,
                                             parents |-> {fid}])
                    ELSE store,
          opened |-> {filename}, outcome |-> outcome, driveFile |-> driveFile]

(***************************************************************************)
(* uploadFile: locate an existing object when overwrite is set, then       *)
(* transfer.                                                               *)
(***************************************************************************)
\* the scan of r.Files: currentFile (its Id) when the loop ends
RECURSIVE ScanFiles(_, _, _, _)
ScanFiles(rfiles, n, fid, currentFile) ==
    IF rfiles = <<>> THEN currentFile
    ELSE LET i == Head(rfiles) IN
         IF n = i.name
         THEN IF fid \in i.parents
              THEN i.id
              ELSE ScanFiles(Tail(rfiles), n, fid, i.id)
         ELSE ScanFiles(Tail(rfiles), n, fid, currentFile)

\* a scan without the break: the last returned object of that name
LastNamedFile(rfiles, n, fid) ==
    LET named == { i \in DOMAIN rfiles : rfiles[i].name = n } IN
    IF named = {} THEN Nil ELSE rfiles[Max(named)].id

CurrentFile(rfiles, n, fid) == ScanFiles(rfiles, n, fid, Nil)

\* an uploadFile that searches whatever the overwrite flag says
uploadFileAlwaysSearch(filename, fid, n, overwrite, listOk, r, outcome, ok) ==
    LET list == Call("list", FALSE, n, Nil, Nil, IF listOk THEN r ELSE <<>>, listOk) IN
    IF ~listOk
    THEN [err |-> "unable to retrieve files", calls |-> <<list>>, store |-> store,
          opened |-> {}, outcome |-> "none", driveFile |-> Nil]
    ELSE LET t == uploadToDrive(filename, fid, CurrentFile(r, n, fid), n, outcome, ok)
         IN  [t EXCEPT !.calls = <<list>> \o @]

uploadFile(filename, fid, n, overwrite, listOk, r, outcome, ok) ==
    IF ~overwrite
    THEN uploadToDrive(filename, fid, Nil, n, outcome, ok)
    ELSE LET list == Call("list", FALSE, n, Nil, Nil, IF listOk THEN r ELSE <<>>, listOk) IN
         IF ~listOk
         THEN [err |-> "unable to retrieve files", calls |-> <<list>>, store |-> store,
               opened |-> {}, outcome |-> "none", driveFile |-> Nil]
         ELSE LET t == uploadToDrive(filename, fid, CurrentFile(r, n, fid), n, outcome, ok)
              IN  [t EXCEPT !.calls = <<list>> \o @]

(***************************************************************************)
(* main: the loop over the matched files.                                  *)
(***************************************************************************)
\* a derivation in which a configured name wins over the multi-file rule
TargetNameConfiguredFirst(file) ==
    IF useCompleteSourceFilenameAsNameFlag THEN file
    ELSE IF name = EmptyString THEN Base(file)
    ELSE name

\* targetName before the prefix is applied
TargetName(file) ==
    LET useSourceFilename == Len(files) > 1 IN
    IF useCompleteSourceFilenameAsNameFlag THEN file
    ELSE IF useSourceFilename \/ name = EmptyString THEN Base(file)
    ELSE name

\* targetName as passed to uploadFile
PrefixedName(targetName) ==
    IF filenamePrefix # EmptyString THEN filenamePrefix \o targetName ELSE targetName

\* an iteration that keeps the folderId the previous file ended with
KeepFolderId(current) == current

\* folderId at the top of an iteration
ResetFolderId(current) == originalFolderId

\* an error that is reported and does not end the run
IgnoreError(err, next) == next

\* `if err != nil { githubactions.Fatalf(...) }`: Fatalf exits the process
OnError(err, next) == IF err # "" THEN "fatal" ELSE next

Init ==
    /\ files \in FileLists
    /\ name \in Names
    /\ filenamePrefix \in Prefixes
    /\ overwriteFlag \in BOOLEAN
    /\ useCompleteSourceFilenameAsNameFlag \in BOOLEAN
    /\ mirrorDirectoryStructureFlag \in BOOLEAN
    /\ store \in InitialStores
    /\ idx = 1
    /\ seg = 1
    /\ folderId = originalFolderId
    /\ pc = "loop"
    /\ calls = <<>>
    /\ resolves = <<>>
    /\ uploads = <<>>
    /\ openHandles = {}

\* top of an iteration of `for _, file := range files`
NextFile ==
    /\ pc = "loop"
    /\ idx <= Len(files)
    /\ folderId' = ResetFolderId(folderId)
    /\ seg' = 1
    /\ pc' = IF mirrorDirectoryStructureFlag THEN "mirror" ELSE "upload"
    /\ UNCHANGED <<config, store, idx, calls, resolves, uploads, openHandles>>

\* one iteration of `for _, dir := range directoryStructure`
MirrorDirectory ==
    /\ pc = "mirror"
    /\ LET directoryStructure == DirectoryStructure(files[idx])
           dir == directoryStructure[seg]
       IN  \E listOk \in BOOLEAN, createOk \in BOOLEAN,
              r \in ListResults(FolderQuery(dir)) :
             LET d == createDriveDirectory(folderId, dir, listOk, r, createOk) IN
             /\ calls' = calls \o d.calls
             /\ store' = d.store
             /\ resolves' = Append(resolves,
                    [file |-> idx, seg |-> seg, parent |-> folderId, name |-> dir,
                     id |-> d.id, err |-> d.err])
             /\ folderId' = d.id
             /\ pc' = OnError(d.err,
                        IF seg = Len(directoryStructure) THEN "upload" ELSE "mirror")
             /\ seg' = IF pc' = "mirror" THEN seg + 1 ELSE seg
    /\ UNCHANGED <<config, idx, uploads, openHandles>>

\* name derivation and the uploadFile call of one iteration
UploadFile ==
    /\ pc = "upload"
    /\ LET file == files[idx]
           targetName == TargetName(file)
           final == PrefixedName(targetName)
       IN  IF targetName = EmptyString
           THEN /\ pc' = "fatal"
                /\ UNCHANGED <<store, idx, calls, uploads, openHandles>>
           ELSE \E listOk \in BOOLEAN, ok \in BOOLEAN,
                   outcome \in LocalOutcomes(file),
                   r \in ListResults(NameQuery(final)) :
                  LET u == uploadFile(file, folderId, final, overwriteFlag,
                                      listOk, r, outcome, ok)
                  IN  /\ calls' = calls \o u.calls
                      /\ store' = u.store
                      /\ openHandles' = openHandles \cup u.opened
                      /\ uploads' = Append(uploads,
                             [file |-> idx, folderId |-> folderId, name |-> final,
                              outcome |-> u.outcome, driveFile |-> u.driveFile,
                              err |-> u.err])
                      /\ pc' = OnError(u.err,
                                 IF idx = Len(files) THEN "done" ELSE "loop")
                      /\ idx' = IF pc' = "fatal" THEN idx ELSE idx + 1
    /\ UNCHANGED <<config, seg, folderId, resolves>>

Next == NextFile \/ MirrorDirectory \/ UploadFile

Spec == Init /\ [][Next]_vars

(***************************************************************************)
(* Reading the history.                                                    *)
(***************************************************************************)
\* the remote calls uploadFile issued for the i-th file
CallsOfUpload(i) == SelectSeq(calls, LAMBDA c : c.file = i /\ c.seg = 0)

\* the remote calls the k-th createDriveDirectory of the i-th file issued
CallsOfResolve(i, k) == SelectSeq(calls, LAMBDA c : c.file = i /\ c.seg = k)

\* the createDriveDirectory invocations made for the i-th file
ResolvesOf(i) == SelectSeq(resolves, LAMBDA r : r.file = i)

Count(s, op) == Len(SelectSeq(s, LAMBDA c : c.op = op))

\* positions of the returned objects named n that have fid among their parents
InFolder(rfiles, n, fid) ==
    { j \in DOMAIN rfiles : rfiles[j].name = n /\ fid \in rfiles[j].parents }

\* positions of the returned objects named n attached elsewhere only
OutOfFolder(rfiles, n, fid) ==
    { j \in DOMAIN rfiles : rfiles[j].name = n /\ fid \notin rfiles[j].parents }

\* the file search of an uploadFile invocation succeeded
Searched(u) ==
    /\ CallsOfUpload(u.file) # <<>>
    /\ CallsOfUpload(u.file)[1].op = "list"
    /\ CallsOfUpload(u.file)[1].ok

(***************************************************************************)
(* C1: with overwrite enabled, when the search returns an object named     *)
(* targetName outside folderId and none inside it, a new object is created *)
(* with parent folderId and no existing object is updated.                 *)
(***************************************************************************)
C1_OtherParentIsNotFound ==
    \A k \in DOMAIN uploads :
        LET u == uploads[k]
            cs == CallsOfUpload(u.file)
        IN  ( /\ overwriteFlag
              /\ Searched(u)
              /\ OutOfFolder(cs[1].files, u.name, u.folderId) # {}
              /\ InFolder(cs[1].files, u.name, u.folderId) = {}
              /\ u.outcome = "file" )
            => /\ u.driveFile = Nil
               /\ Count(cs, "update") = 0
               /\ Count(cs, "create") = 1
               /\ cs[2].op = "create" /\ cs[2].parent = u.folderId

(***************************************************************************)
(* C2: with overwrite enabled, when the search returns objects named       *)
(* targetName inside folderId, the first of them in the result list is the *)
(* one updated: nothing is created, it gets the name and mime type, and    *)
(* folderId joins its parents while every earlier parent stays.            *)
(***************************************************************************)
C2_FirstMatchInFolderIsUpdated ==
    \A k \in DOMAIN uploads :
        LET u == uploads[k]
            cs == CallsOfUpload(u.file)
        IN  ( /\ overwriteFlag
              /\ Searched(u)
              /\ InFolder(cs[1].files, u.name, u.folderId) # {} )
            => LET m == cs[1].files[Min(InFolder(cs[1].files, u.name, u.folderId))] IN
               /\ u.driveFile = m.id
               /\ Count(cs, "create") = 0
               /\ u.outcome = "file" =>
                    /\ Len(cs) = 2
                    /\ cs[2].op = "update" /\ cs[2].id = m.id
                    /\ cs[2].q = u.name /\ cs[2].parent = u.folderId
                    /\ cs[2].ok =>
                         /\ store[m.id].name = u.name
                         /\ store[m.id].mimeType = mimeType
                         /\ m.parents \cup {u.folderId} \subseteq store[m.id].parents

C2_Witness ==
    \E k \in DOMAIN uploads :
        LET u == uploads[k]
            cs == CallsOfUpload(u.file)
        IN  /\ overwriteFlag
            /\ Searched(u)
            /\ Cardinality(InFolder(cs[1].files, u.name, u.folderId)) >= 2
            /\ Len(cs) = 2 /\ cs[2].op = "update" /\ cs[2].ok
            /\ cs[2].id = cs[1].files[Min(InFolder(cs[1].files, u.name, u.folderId))].id
            /\ cs[2].id # cs[1].files[Max(InFolder(cs[1].files, u.name, u.folderId))].id
            /\ store[cs[2].id].mimeType = mimeType

(***************************************************************************)
(* C3: with overwrite disabled no file search and no update is ever        *)
(* issued, and a regular local file gives exactly one create call, with    *)
(* parent folderId, even when an object of that name is already there.     *)
(***************************************************************************)
C3_NoOverwriteAlwaysCreates ==
    ~overwriteFlag =>
        /\ \A j \in DOMAIN calls :
              /\ ~(calls[j].op = "list" /\ ~calls[j].folder)
              /\ calls[j].op # "update"
        /\ \A k \in DOMAIN uploads :
              LET u == uploads[k]
                  cs == CallsOfUpload(u.file)
              IN  u.outcome = "file" =>
                    /\ Len(cs) = 1
                    /\ cs[1].op = "create" /\ ~cs[1].folder
                    /\ cs[1].q = u.name /\ cs[1].parent = u.folderId

C3_Witness ==
    /\ ~overwriteFlag
    /\ \E k \in DOMAIN uploads :
          LET u == uploads[k]
              cs == CallsOfUpload(u.file)
          IN  /\ Len(cs) = 1 /\ cs[1].op = "create" /\ cs[1].ok
              /\ \E id \in DOMAIN store :
                    /\ id # cs[1].id
                    /\ store[id].name = u.name
                    /\ u.folderId \in store[id].parents

(***************************************************************************)
(* C4: the name passed to uploadFile is namePrefix followed by the derived *)
(* name: the whole matched path under useCompleteSourceFilenameAsName,     *)
(* else the base name when several files matched or no name is configured, *)
(* else the configured name.                                               *)
(***************************************************************************)
\* the last component of a matched path
LastComponent(path) == Last(Split(path))

C4_DerivedName(file) ==
    IF useCompleteSourceFilenameAsNameFlag THEN file
    ELSE IF Len(files) > 1 \/ name = EmptyString THEN LastComponent(file)
    ELSE name

C4_NamePassedToUploadFile ==
    /\ \A k \in DOMAIN uploads :
          uploads[k].name = filenamePrefix \o C4_DerivedName(files[uploads[k].file])
    /\ pc = "done" => \A i \in DOMAIN files : \E k \in DOMAIN uploads : uploads[k].file = i

C4_Witness ==
    /\ pc = "done"
    /\ Len(files) > 1
    /\ name # EmptyString
    /\ filenamePrefix # EmptyString
    /\ ~useCompleteSourceFilenameAsNameFlag
    /\ \E k \in DOMAIN uploads :
          /\ Len(files[uploads[k].file]) > 1
          /\ uploads[k].name = filenamePrefix \o LastComponent(files[uploads[k].file])

(***************************************************************************)
(* C5: with mirroring, the resolver is called once per directory segment   *)
(* of the file's path, root to leaf, the first call under the configured   *)
(* root folder and each later call under the identifier the previous call  *)
(* returned, and the file is uploaded into the last identifier; without    *)
(* mirroring every file is uploaded into the configured root folder.       *)
(***************************************************************************)
\* the components of a path before its last one
LeadingComponents(path) == SubSeq(Split(path), 1, Len(Split(path)) - 1)

C5_Chain(i) ==
    LET rs == ResolvesOf(i)
        ds == DirectoryStructure(files[i])
    IN  /\ Len(rs) <= Len(ds)
        /\ LeadingComponents(files[i]) # <<>> => ds = LeadingComponents(files[i])
        /\ \A k \in DOMAIN rs :
              /\ rs[k].seg = k
              /\ rs[k].name = ds[k]
              /\ rs[k].parent = IF k = 1 THEN originalFolderId ELSE rs[k - 1].id

C5_MirroredFolderChain ==
    IF mirrorDirectoryStructureFlag
    THEN /\ \A i \in DOMAIN files : C5_Chain(i)
         /\ \A k \in DOMAIN uploads :
               LET rs == ResolvesOf(uploads[k].file) IN
               /\ Len(rs) = Len(DirectoryStructure(files[uploads[k].file]))
               /\ uploads[k].folderId = Last(rs).id
    ELSE /\ resolves = <<>>
         /\ \A k \in DOMAIN uploads : uploads[k].folderId = originalFolderId

C5_Witness ==
    /\ mirrorDirectoryStructureFlag
    /\ Len(uploads) = 2
    /\ uploads[1].folderId # originalFolderId
    /\ Len(ResolvesOf(2)) = 2
    /\ ResolvesOf(2)[1].parent = originalFolderId
    /\ ResolvesOf(2)[2].parent = ResolvesOf(2)[1].id
    /\ uploads[2].folderId = ResolvesOf(2)[2].id
    /\ uploads[2].folderId # uploads[1].folderId

(***************************************************************************)
(* C6: for a matched path that is a directory the transfer issues no       *)
(* create and no update and returns success, and the run goes on with the  *)
(* next file, with overwrite enabled or disabled.                          *)
(***************************************************************************)
C6_DirectoryIsSkipped ==
    \A k \in DOMAIN uploads :
        LET u == uploads[k]
            cs == CallsOfUpload(u.file)
        IN  u.outcome = "dir" =>
              /\ u.err = ""
              /\ Count(cs, "create") = 0
              /\ Count(cs, "update") = 0
              /\ files[u.file] \notin openHandles
              /\ idx > u.file
              /\ u.file = Len(files) => pc = "done"

C6_Witness ==
    /\ overwriteFlag
    /\ Len(uploads) = 2
    /\ uploads[1].outcome = "dir"
    /\ Searched(uploads[1])
    /\ uploads[2].outcome = "file"
    /\ uploads[2].err = ""

(***************************************************************************)
(* C7: the first failed remote call ends the run: it is the last call      *)
(* issued, the run is in the fatal state, no later file is processed, and  *)
(* what earlier calls created or updated is still in the store.            *)
(***************************************************************************)
C7_FirstFailureIsFatal ==
    \A j \in DOMAIN calls :
        ~calls[j].ok =>
            /\ j = Len(calls)
            /\ pc = "fatal"
            /\ idx = calls[j].file
            /\ \A k \in DOMAIN uploads : uploads[k].file <= calls[j].file
            /\ \A k \in DOMAIN resolves : resolves[k].file <= calls[j].file
            /\ \A i \in 1..(j - 1) :
                  calls[i].op \in {"create", "update"} =>
                      /\ calls[i].id \in DOMAIN store
                      /\ store[calls[i].id].name = calls[i].q
                      /\ calls[i].parent \in store[calls[i].id].parents

C7_Witness ==
    /\ pc = "fatal"
    /\ idx < Len(files)
    /\ Len(calls) >= 3
    /\ ~calls[Len(calls)].ok
    /\ \E i \in 1..(Len(calls) - 1) :
          calls[i].op = "create" /\ ~calls[i].folder /\ calls[i].file < idx

(***************************************************************************)
(* C8: when the folder search returns two or more folders that have        *)
(* parentId among their parents, resolve returns one of them chosen by its *)
(* place in the search results.                                            *)
(***************************************************************************)
\* the claim as stated: the first of them is returned
C8_FirstDuplicateIsReturned ==
    \A k \in DOMAIN resolves :
        LET r == resolves[k]
            cs == CallsOfResolve(r.file, r.seg)
        IN  (cs[1].ok /\ Cardinality(ParentMatches(cs[1].files, r.parent)) >= 2)
            => r.id = cs[1].files[Min(ParentMatches(cs[1].files, r.parent))].id

\* the claim as amended: the last of them is returned
C8_LastDuplicateIsReturned ==
    \A k \in DOMAIN resolves :
        LET r == resolves[k]
            cs == CallsOfResolve(r.file, r.seg)
        IN  (cs[1].ok /\ Cardinality(ParentMatches(cs[1].files, r.parent)) >= 2)
            => /\ r.err = ""
               /\ r.id = cs[1].files[Max(ParentMatches(cs[1].files, r.parent))].id

C8_Witness ==
    \E k \in DOMAIN resolves :
        LET r == resolves[k]
            cs == CallsOfResolve(r.file, r.seg)
        IN  /\ cs[1].ok
            /\ Cardinality(ParentMatches(cs[1].files, r.parent)) >= 2
            /\ r.id = cs[1].files[Len(cs[1].files)].id
            /\ r.id # cs[1].files[1].id

(***************************************************************************)
(* C9: each resolve call issues exactly one search, and one create exactly *)
(* when no returned folder has parentId among its parents; a folder of the *)
(* same name under another parent neither prevents the create nor is       *)
(* returned; so a folder is created at most once per name and parent in a  *)
(* run.                                                                    *)
(***************************************************************************)
C9_FindOrCreateFolder ==
    /\ \A k \in DOMAIN resolves :
          LET r == resolves[k]
              cs == CallsOfResolve(r.file, r.seg)
              inParent == ParentMatches(cs[1].files, r.parent)
          IN  /\ cs # <<>>
              /\ cs[1].op = "list" /\ cs[1].folder /\ cs[1].q = r.name
              /\ Count(cs, "list") = 1
              /\ Count(cs, "update") = 0
              /\ Count(cs, "create") = IF cs[1].ok /\ inParent = {} THEN 1 ELSE 0
              /\ Count(cs, "create") = 1 =>
                    /\ cs[2].folder /\ cs[2].q = r.name /\ cs[2].parent = r.parent
                    /\ cs[2].ok => r.id = cs[2].id
              /\ (cs[1].ok /\ inParent # {}) =>
                    r.id \in { cs[1].files[j].id : j \in inParent }
    /\ \A i, j \in DOMAIN calls :
          ( /\ calls[i].op = "create" /\ calls[i].folder /\ calls[i].ok
            /\ calls[j].op = "create" /\ calls[j].folder /\ calls[j].ok
            /\ calls[i].q = calls[j].q /\ calls[i].parent = calls[j].parent )
          => i = j

C9_Witness ==
    /\ Len(files) = 2
    /\ Len(uploads) = 2
    /\ Len(resolves) = 2
    /\ resolves[1].name = resolves[2].name
    /\ resolves[1].parent = resolves[2].parent
    /\ resolves[1].id = resolves[2].id
    /\ Count(CallsOfResolve(1, 1), "create") = 1
    /\ Count(CallsOfResolve(2, 1), "create") = 0
    /\ CallsOfResolve(1, 1)[1].files # <<>>

(***************************************************************************)
(* C10: every local file handle the transfer opened is closed when the     *)
(* transfer returns: no handle is open once uploadFile has returned, nor   *)
(* at the start of an iteration.                                           *)
(***************************************************************************)
C10_HandlesClosedOnReturn ==
    pc \in {"loop", "done", "fatal"} => openHandles = {}

====
